---------------------------- MODULE Spec2Model ----------------------------
(***************************************************************************)
(* cfbind: a dynamic-DNS client that binds a Cloudflare A record to the    *)
(* public IP address of the host.  The model follows src/src/main.rs:      *)
(* main -> parse_root_domain -> fetch_zones_by_domain -> create_updater,   *)
(* whose loop runs get_current_ip -> update_zone (get_dns_record, then PUT *)
(* or POST) -> sleep(60s).  The DNS provider and the public-IP service are *)
(* the environment: every await on them draws its outcome from the answers *)
(* the service can give.                                                   *)
(*                                                                         *)
(* Strings the code takes apart (the domain) are sequences of one-letter   *)
(* strings; strings it only passes on (ids, IP bodies) are TLA+ strings.   *)
(***************************************************************************)
EXTENDS Integers, Sequences, FiniteSets, TLC

VARIABLES
    domain,         \* Args.domain (main.rs:13), a sequence of characters
    disable_proxy,  \* Args.disable_proxy (main.rs:16)
    zones,          \* provider: the zones visible to the credentials, in listing order
    records,        \* provider: the DNS records it stores
    nextId,         \* provider: the number of the next record id it hands out
    pc,             \* where main / the updater task stands
    root_domain,    \* main.rs:187, result of parse_root_domain
    current_zone,   \* main.rs:190, the Option<Zone> handed to create_updater
    current_ip,     \* main.rs:169, the body returned by get_current_ip
    zid,            \* main.rs:167, the zone id the loop works with
    found,          \* main.rs:117, the Option<DNSRecord> get_dns_record returned
    tick,           \* number of the loop iteration in progress (1, 2, ...)
    clock,          \* seconds slept so far by the loop
    exit_code,      \* exit status of the process once pc = "exited"
    stdout,         \* the kinds of lines printed so far
    events,         \* every network call made and every return of update_zone, in order
    foreign         \* number of changes made to the provider's records by other writers

vars == <<domain, disable_proxy, zones, records, nextId, pc, root_domain,
          current_zone, zid, current_ip, found, tick, clock, exit_code, stdout,
          events, foreign>>

-----------------------------------------------------------------------------
(* Bounds of the model. *)

MaxLabels == 4          \* labels of a domain handed to parse_root_domain
MaxTicks == 2           \* loop iterations explored
MaxForeign == 1         \* changes by writers other than this process

-----------------------------------------------------------------------------
(* Character strings. *)

S_http == <<"h", "t", "t", "p">>
S_https == <<"h", "t", "t", "p", "s">>
S_https_prefix == <<"h", "t", "t", "p", "s", ":", "/", "/">>
S_http_prefix == <<"h", "t", "t", "p", ":", "/", "/">>
S_dot == "."

LowerMap == [c \in {"A", "B", "C", "H", "O", "P", "S", "T", "X"} |->
               CASE c = "A" -> "a" [] c = "B" -> "b" [] c = "C" -> "c"
                 [] c = "H" -> "h" [] c = "O" -> "o" [] c = "P" -> "p"
                 [] c = "S" -> "s" [] c = "T" -> "t" [] c = "X" -> "x"]

\* str::to_lowercase
ToLowercase(s) ==
    [i \in 1..Len(s) |-> IF s[i] \in DOMAIN LowerMap THEN LowerMap[s[i]] ELSE s[i]]

\* str::starts_with
StartsWith(s, p) == Len(s) >= Len(p) /\ SubSeq(s, 1, Len(p)) = p

\* index of the first occurrence of character c in s, 0 when there is none
IndexOf(s, c) ==
    IF \E i \in 1..Len(s) : s[i] = c
    THEN CHOOSE i \in 1..Len(s) : s[i] = c /\ \A j \in 1..(i - 1) : s[j] # c
    ELSE 0

RECURSIVE Split(_, _)
\* str::split(c): the pieces of s between occurrences of c (never empty as a list)
Split(s, c) ==
    LET i == IndexOf(s, c)
    IN  IF i = 0 THEN <<s>>
        ELSE <<SubSeq(s, 1, i - 1)>> \o Split(SubSeq(s, i + 1, Len(s)), c)

RECURSIVE Join(_, _)
\* [String]::join(c)
Join(parts, c) ==
    IF Len(parts) = 0 THEN <<>>
    ELSE IF Len(parts) = 1 THEN parts[1]
    ELSE parts[1] \o <<c>> \o Join(Tail(parts), c)

RECURSIVE StripSlashes(_)
StripSlashes(s) ==
    IF Len(s) > 0 /\ s[1] = "/" THEN StripSlashes(Tail(s)) ELSE s

\* format!("https://{}", domain)
FormatHttps(d) == S_https_prefix \o d

NoHost == <<"<", "n", "o", "n", "e", ">">>

\* url::Url::parse(url).unwrap().host_str(): the host of an http(s) URL,
\* lower-cased by the parser; NoHost when Url::parse returns an error
\* (no "scheme:" in front: RelativeUrlWithoutBase; nothing after it: EmptyHost).
UrlHostStr(url) ==
    LET colon == IndexOf(url, ":")
        scheme == ToLowercase(SubSeq(url, 1, colon - 1))
        rest == StripSlashes(SubSeq(url, colon + 1, Len(url)))
    IN  IF colon = 0 THEN NoHost
        ELSE IF scheme \notin {S_http, S_https} THEN NoHost
        ELSE IF Len(rest) = 0 THEN NoHost
        ELSE ToLowercase(rest)

\* main.rs:149-153
UrlStr(d) ==
    LET lower_case_domain == ToLowercase(d)
    IN  IF StartsWith(lower_case_domain, S_http) \/ StartsWith(lower_case_domain, S_https)
        THEN d
        ELSE FormatHttps(d)

\* main.rs:156-161
LastTwoOrAll(host) ==
    LET parts == Split(host, S_dot)
    IN  IF Len(parts) <= 2 THEN host
        ELSE Join(SubSeq(parts, Len(parts) - 1, Len(parts)), S_dot)

Panic == [kind |-> "Panic", val |-> <<>>]
NotParsed == [kind |-> "None", val |-> <<>>]
Ok(v) == [kind |-> "Ok", val |-> v]

\* main.rs:147-162.  The function never returns Err: a URL that does not
\* parse makes the unwrap on line 154 panic.
parse_root_domain(d) ==
    LET host == UrlHostStr(UrlStr(d))
    IN  IF host = NoHost THEN Panic ELSE Ok(LastTwoOrAll(host))


-----------------------------------------------------------------------------
(* Values. *)

IntervalSecs == 60      \* main.rs:172
AutoTtl == 1            \* main.rs:114
ExitSuccess == 0        \* main returns Ok(())
ExitFailure == 1        \* main returns Err(_)
ExitPanic == 101        \* main panics

D_x_co == <<"x", ".", "c", "o">>
D_a_x_co == <<"a", ".", "x", ".", "c", "o">>
D_y_co == <<"y", ".", "c", "o">>
D_http_co == <<"h", "t", "t", "p", ".", "c", "o">>

\* the domains given on the command line
DomainArgs == {D_a_x_co, D_http_co}

ZoneIds == {"z1", "z2", "z3"}
NewZoneId == "z3"       \* the id a zone gets when the provider re-creates it
ZoneNames == {D_x_co, D_y_co}
NoZone == [id |-> "none", name |-> <<>>]
NoZid == "none"

\* main.rs:29-33
Zone == [id : ZoneIds, name : ZoneNames]

\* what the public-IP service can send back as a body
ValidIPv4 == {"203.0.113.7", "198.51.100.9"}
MalformedBodies == {"not-an-ip"}
Bodies == ValidIPv4 \cup MalformedBodies
NoIp == "none"
OldContent == "192.0.2.1"

NoId == 0
\* main.rs:35-44, with the zone the provider keeps the record in
MkRecord(id, zone_id, name, content, proxied, ttl) ==
    [id |-> id, zone_id |-> zone_id, name |-> name, content |-> content,
     record_type |-> "A", proxied |-> proxied, ttl |-> ttl]
NoRecord == MkRecord(NoId, NoZid, <<>>, NoIp, FALSE, 0)

\* Data with the name copied into the content field
Data_name_as_content(name, content, dp) ==
    [id |-> NoId, name |-> name, content |-> name, record_type |-> "A",
     proxied |-> ~dp, ttl |-> AutoTtl]

\* Data with the flag copied into proxied without the negation
Data_proxied_not_negated(name, content, dp) ==
    [id |-> NoId, name |-> name, content |-> content, record_type |-> "A",
     proxied |-> dp, ttl |-> AutoTtl]

\* main.rs:108-115
Data(name, content, dp) ==
    [id |-> NoId, name |-> name, content |-> content, record_type |-> "A",
     proxied |-> ~dp, ttl |-> AutoTtl]

Z(id, name) == [id |-> id, name |-> name]
\* the zone listings the provider may hold at startup: no zone, one zone of
\* the apex or of another name, two zones of the apex (the records being in
\* the second one)
ZoneListings ==
    {<<>>, <<Z("z1", D_x_co)>>, <<Z("z1", D_y_co)>>,
     <<Z("z2", D_x_co), Z("z1", D_x_co)>>}

\* the records the provider may hold at startup for a name: none, one or two in zone z1
InitialRecords(name) ==
    LET r1 == MkRecord(1, "z1", name, OldContent, FALSE, 300)
        r2 == MkRecord(2, "z1", name, OldContent, TRUE, 300)
    IN  {{}, {r1}, {r1, r2}}
FirstFreeId == 3

-----------------------------------------------------------------------------
(* The provider's side of each call. *)

\* GET /zones?name=...: the zones whose name is the queried one, in listing order
ZoneQuery(name) == SelectSeq(zones, LAMBDA z : z.name = name)

\* GET /zones/{zone_id}/dns_records?name=...&type=...
RecordQuery(zone_id, name, record_type) ==
    {r \in records : r.zone_id = zone_id /\ r.name = name /\ r.record_type = record_type}

\* the provider knows a zone of this id
ZoneExists(zone_id) == \E k \in 1..Len(zones) : zones[k].id = zone_id

\* PUT /zones/{zone_id}/dns_records/{id}: the stored record takes the body's fields
ProviderPut(zone_id, id, data) ==
    {IF r.zone_id = zone_id /\ r.id = id
     THEN MkRecord(r.id, zone_id, data.name, data.content, data.proxied, data.ttl)
     ELSE r : r \in records}

\* POST /zones/{zone_id}/dns_records: a new record under a fresh id
ProviderPost(zone_id, data) ==
    records \cup {MkRecord(nextId, zone_id, data.name, data.content, data.proxied, data.ttl)}

-----------------------------------------------------------------------------
(* The log of calls.  An event keeps the records the provider holds after  *)
(* it where the call can change them or is the first of the run (the zone   *)
(* lookup, a PUT, a POST, a change by another writer), the empty set         *)
(* elsewhere.                                                                *)

Ev(op, zone_id, id, content, outcome, n, recs) ==
    [tick |-> tick, op |-> op, zone |-> zone_id, id |-> id, content |-> content,
     outcome |-> outcome, n |-> n, recs |-> recs]

\* The log keeps the startup and the last two iterations of the loop: when an
\* iteration ends, the events of the iterations before it are dropped.
Kept(e) == e.tick = 0 \/ e.tick = tick

\* update_zone returning to the loop (main.rs:144, or the ? on lines 125-137)
Ret(outcome) == Ev("RET", zid, NoId, current_ip, outcome, 0, {})

-----------------------------------------------------------------------------
(* Pure parts of the handlers. *)

\* main.rs:68, response.result.into_iter().next()
FirstZone(result) == IF Len(result) = 0 THEN NoZone ELSE result[1]

\* SingleRecord with the length test off by one
SingleRecord_len2(result) ==
    IF Cardinality(result) = 2 THEN CHOOSE r \in result : TRUE ELSE NoRecord

\* main.rs:92-97
SingleRecord(result) ==
    IF Cardinality(result) = 1 THEN CHOOSE r \in result : TRUE ELSE NoRecord

\* WriteStep that creates whatever the listing found
WriteStep_always_post(record) == "post"

\* WriteStep that leaves alone a record whose ttl is already the automatic one
WriteStep_skip_current(record) ==
    IF record = NoRecord THEN "post"
    ELSE IF record.ttl = AutoTtl THEN "sleep" ELSE "put"

\* main.rs:117-130, the arm of the match taken for the record found
WriteStep(record) == IF record # NoRecord THEN "put" ELSE "post"

\* AfterListError that treats a failed listing like an empty one
AfterListError_post(e) == "post"

\* main.rs:140-144, the Err arm: the error is printed and update_zone falls
\* through to Ok(()), so the loop goes on to its sleep
AfterListError(e) == "sleep"

\* LoopEntered that does not look at the zone
LoopEntered_always(zone) == TRUE

\* main.rs:166, if let Some(zone) = zone
LoopEntered(zone) == zone # NoZone

\* Elapsed without the sleep
Elapsed_no_sleep(c) == c

\* main.rs:172, the clock after tokio::time::sleep(Duration::from_secs(60))
Elapsed(c) == c + IntervalSecs

\* AfterJoin of a main that starts the loop again when the task panicked
AfterJoin_respawn(result) == IF result = "task_panicked" THEN "resolve_ip" ELSE "exited"

\* main.rs:202-203: try_join! yields the task's result and main returns
AfterJoin(result) == "exited"

-----------------------------------------------------------------------------
(* main *)

Init ==
    /\ domain \in DomainArgs
    /\ disable_proxy \in BOOLEAN
    /\ zones \in ZoneListings
    /\ records \in InitialRecords(domain)
    /\ nextId = FirstFreeId
    /\ pc = "main"
    /\ root_domain = NotParsed
    /\ current_zone = NoZone
    /\ zid = NoZid
    /\ current_ip = NoIp
    /\ found = NoRecord
    /\ tick = 0
    /\ clock = 0
    /\ exit_code = -1
    /\ stdout = {}
    /\ events = <<>>
    /\ foreign = 0

Exit(code) == pc' = "exited" /\ exit_code' = code

\* the updater task ends: it returns (main.rs:175) or an unwrap panics in it
\* (main.rs:169, 171); main is still waiting in try_join!
TaskEnds(how) == pc' = how /\ UNCHANGED exit_code

\* main.rs:187
ParseRootDomain ==
    /\ pc = "main"
    /\ root_domain' = parse_root_domain(domain)
    /\ IF root_domain'.kind = "Panic"
       THEN Exit(ExitPanic)
       ELSE pc' = "fetch_zones" /\ UNCHANGED exit_code
    /\ UNCHANGED <<domain, disable_proxy, zones, records, nextId, current_zone, zid,
                   current_ip, found, tick, clock, stdout, events, foreign>>

\* main.rs:188-199 with fetch_zones_by_domain, main.rs:54-69
FetchZonesByDomain ==
    /\ pc = "fetch_zones"
    /\ \/ \* send or json fails: the ? on line 188 makes main return the error
          /\ events' = Append(events, Ev("ZONES", NoZid, NoId, NoIp, "err", 0, records))
          /\ Exit(ExitFailure)
          /\ UNCHANGED <<current_zone, stdout>>
       \/ LET result == ZoneQuery(root_domain.val)
              zone == FirstZone(result)
          IN  /\ events' = Append(events, Ev("ZONES", NoZid, NoId, NoIp, "ok", Len(result), records))
              /\ current_zone' = zone
              /\ stdout' = stdout \cup {IF zone # NoZone THEN "Zone" ELSE "No zone found"}
              /\ pc' = "create_updater"
              /\ UNCHANGED exit_code
    /\ UNCHANGED <<domain, disable_proxy, zones, records, nextId, root_domain, zid,
                   current_ip, found, tick, clock, foreign>>

\* main.rs:201-203 with create_updater, main.rs:164-167 and 175
CreateUpdater ==
    /\ pc = "create_updater"
    /\ IF LoopEntered(current_zone)
       THEN /\ zid' = current_zone.id
            /\ tick' = 1
            /\ pc' = "resolve_ip"
            /\ UNCHANGED exit_code
       ELSE \* the task returns Ok(()) at once
            /\ TaskEnds("task_returned")
            /\ UNCHANGED <<zid, tick>>
    /\ UNCHANGED <<domain, disable_proxy, zones, records, nextId, root_domain,
                   current_zone, current_ip, found, clock, stdout, events, foreign>>

-----------------------------------------------------------------------------
(* The loop of create_updater, one action per await. *)

\* main.rs:169-170 with get_current_ip, main.rs:71-77
GetCurrentIp ==
    /\ pc = "resolve_ip"
    /\ \/ \* the request fails: unwrap panics in the task
          /\ events' = Append(events, Ev("RESOLVE", NoZid, NoId, NoIp, "err", 0, {}))
          /\ TaskEnds("task_panicked")
          /\ UNCHANGED <<current_ip, stdout>>
       \/ \E body \in Bodies :
          /\ events' = Append(events, Ev("RESOLVE", NoZid, NoId, body, "ok", 0, {}))
          /\ current_ip' = body
          /\ stdout' = stdout \cup {"ip"}
          /\ pc' = "list"
          /\ UNCHANGED exit_code
    /\ UNCHANGED <<domain, disable_proxy, zones, records, nextId, root_domain,
                   current_zone, zid, found, tick, clock, foreign>>

\* main.rs:117 with get_dns_record, main.rs:79-98, and the Err arm, main.rs:140-144
GetDnsRecord ==
    /\ pc = "list"
    /\ \/ \* send or json fails: update_zone prints the error and returns Ok(())
          /\ events' = events \o <<Ev("LIST", zid, NoId, current_ip, "err", 0, {}),
                                   Ret("Ok")>>
          /\ stdout' = stdout \cup {"Error"}
          /\ pc' = AfterListError("err")
          /\ UNCHANGED found
       \/ LET result == RecordQuery(zid, domain, "A")
              record == SingleRecord(result)
          IN  /\ ZoneExists(zid)
              /\ events' = Append(events, Ev("LIST", zid, record.id, current_ip, "ok",
                                             Cardinality(result), {}))
              /\ found' = record
              /\ stdout' = IF record # NoRecord THEN stdout \cup {"Record"} ELSE stdout
              /\ pc' = WriteStep(record)
    /\ UNCHANGED <<domain, disable_proxy, zones, records, nextId, root_domain,
                   current_zone, zid, current_ip, tick, clock, exit_code, foreign>>

\* What a PUT or POST comes to, for the records the provider holds afterwards:
\*   "applied"       the provider stored the body and its response arrived;
\*   "rejected"      the provider answered with a failure status, nothing stored;
\*   "lost"          the request failed before the provider acted;
\*   "applied_lost"  the provider stored the body, the response did not arrive.
\* send() does not fail on a failure status, so the ? on lines 125/127/136/137
\* propagates only the two transport failures, and the unwrap on line 171 panics.
WriteDone(op, id, outcome, recs) ==
    /\ records' = recs
    /\ IF outcome \in {"applied", "rejected"}
       THEN /\ events' = events \o <<Ev(op, zid, id, current_ip, outcome, 0, recs),
                                     Ret("Ok")>>
            /\ stdout' = stdout \cup {"Response"}
            /\ pc' = "sleep"
            /\ UNCHANGED exit_code
       ELSE /\ events' = events \o <<Ev(op, zid, id, current_ip, outcome, 0, recs),
                                     Ret("Err")>>
            /\ TaskEnds("task_panicked")
            /\ UNCHANGED stdout

\* main.rs:118-129
Put ==
    /\ pc = "put"
    /\ LET data == Data(domain, current_ip, disable_proxy)
           id == found.id
           exists == ZoneExists(zid) /\ \E r \in records : r.zone_id = zid /\ r.id = id
       IN  \E outcome \in {"applied", "rejected", "lost", "applied_lost"} :
             /\ outcome \in {"applied", "applied_lost"} => exists
             /\ WriteDone("PUT", id, outcome,
                          IF outcome \in {"applied", "applied_lost"}
                          THEN ProviderPut(zid, id, data) ELSE records)
    /\ UNCHANGED <<domain, disable_proxy, zones, nextId, root_domain, current_zone, zid,
                   current_ip, found, tick, clock, foreign>>

\* main.rs:130-139
Post ==
    /\ pc = "post"
    /\ LET data == Data(domain, current_ip, disable_proxy)
       IN  \E outcome \in {"applied", "rejected", "lost", "applied_lost"} :
             /\ outcome \in {"applied", "applied_lost"} => ZoneExists(zid)
             /\ WriteDone("POST", IF outcome \in {"applied", "applied_lost"} THEN nextId ELSE NoId,
                          outcome,
                          IF outcome \in {"applied", "applied_lost"}
                          THEN ProviderPost(zid, data) ELSE records)
             /\ nextId' = IF outcome \in {"applied", "applied_lost"} THEN nextId + 1 ELSE nextId
    /\ UNCHANGED <<domain, disable_proxy, zones, root_domain, current_zone, zid,
                   current_ip, found, tick, clock, foreign>>

\* main.rs:172, then the next iteration of the loop on line 168
Sleep ==
    /\ pc = "sleep"
    /\ tick < MaxTicks
    /\ clock' = Elapsed(clock)
    /\ events' = Append(SelectSeq(events, Kept), Ev("SLEEP", NoZid, NoId, NoIp, "ok", 0, {}))
    /\ tick' = tick + 1
    /\ pc' = "resolve_ip"
    /\ UNCHANGED <<domain, disable_proxy, zones, records, nextId, root_domain,
                   current_zone, zid, current_ip, found, exit_code, stdout, foreign>>

\* Another writer (the dashboard, another client) adds a record for the name
\* or removes one, before the listing or between the listing and the write.
ProviderSideChange ==
    /\ pc \in {"list", "put", "post"}
    /\ foreign < MaxForeign
    /\ \/ records' = ProviderPost(zid, [Data(domain, OldContent, TRUE) EXCEPT !.ttl = 300])
          /\ nextId' = nextId + 1
       \/ \E r \in RecordQuery(zid, domain, "A") :
            records' = records \ {r} /\ UNCHANGED nextId
    /\ foreign' = foreign + 1
    /\ events' = Append(events, Ev("FOREIGN", zid, NoId, NoIp, "ok", 0, records'))
    /\ UNCHANGED <<domain, disable_proxy, zones, root_domain, current_zone, zid,
                   current_ip, found, tick, clock, pc, exit_code, stdout>>

\* The provider re-creates the zone the loop works with under a new id, its
\* records with it, while the loop sleeps between two iterations.
ZoneSideChange ==
    /\ pc = "sleep"
    /\ tick < MaxTicks
    /\ foreign < MaxForeign
    /\ ZoneExists(zid)
    /\ zones' = [k \in 1..Len(zones) |->
                   IF zones[k].id = zid THEN Z(NewZoneId, zones[k].name) ELSE zones[k]]
    /\ records' = {IF r.zone_id = zid THEN [r EXCEPT !.zone_id = NewZoneId] ELSE r :
                    r \in records}
    /\ foreign' = foreign + 1
    /\ events' = Append(events, Ev("REZONE", NewZoneId, NoId, NoIp, "ok", 0, records'))
    /\ UNCHANGED <<domain, disable_proxy, nextId, root_domain, current_zone, zid,
                   current_ip, found, tick, clock, pc, exit_code, stdout>>

\* A request that gets no response.  reqwest::Client::new() (main.rs:55, 80,
\* 102) and reqwest::get (main.rs:72) set no timeout, so the await on send()
\* never completes and the task stays in it.
NoResponse ==
    /\ pc \in {"fetch_zones", "resolve_ip", "list", "put", "post"}
    /\ events' = Append(events,
                        Ev(CASE pc = "fetch_zones" -> "ZONES" [] pc = "resolve_ip" -> "RESOLVE"
                             [] pc = "list" -> "LIST" [] pc = "put" -> "PUT"
                             [] pc = "post" -> "POST",
                           IF pc \in {"list", "put", "post"} THEN zid ELSE NoZid,
                           IF pc = "put" THEN found.id ELSE NoId,
                           IF pc \in {"list", "put", "post"} THEN current_ip ELSE NoIp,
                           "hung", 0, records))
    /\ pc' = "hung"
    /\ UNCHANGED <<domain, disable_proxy, zones, records, nextId, root_domain,
                   current_zone, zid, current_ip, found, tick, clock, exit_code,
                   stdout, foreign>>

\* main.rs:202-203: the task has ended, try_join! yields its result (the
\* JoinError when it panicked) and main returns it
JoinUpdater ==
    /\ pc \in {"task_returned", "task_panicked"}
    /\ pc' = AfterJoin(pc)
    /\ exit_code' = IF pc = "task_returned" THEN ExitSuccess ELSE ExitFailure
    /\ UNCHANGED <<domain, disable_proxy, zones, records, nextId, root_domain,
                   current_zone, zid, current_ip, found, tick, clock, stdout, events,
                   foreign>>

Next ==
    \/ ParseRootDomain
    \/ FetchZonesByDomain
    \/ CreateUpdater
    \/ GetCurrentIp
    \/ GetDnsRecord
    \/ Put
    \/ Post
    \/ Sleep
    \/ JoinUpdater
    \/ NoResponse
    \/ ProviderSideChange
    \/ ZoneSideChange

Spec == Init /\ [][Next]_vars

TypeOK ==
    /\ \A k \in 1..Len(zones) : zones[k] \in Zone
    /\ pc \in {"main", "fetch_zones", "create_updater", "resolve_ip", "list", "put",
               "post", "sleep", "hung", "task_returned", "task_panicked", "exited"}
    /\ tick \in 0..(MaxTicks + 1)
    /\ exit_code \in {-1, ExitSuccess, ExitFailure, ExitPanic}
    /\ (pc = "exited") = (exit_code # -1)


-----------------------------------------------------------------------------
(* parse_root_domain on its own: every domain of up to MaxLabels labels,    *)
(* bare or behind a scheme.                                                 *)

LabelSet == {<<"a">>, <<"B">>, <<"x">>, <<"c", "o">>, <<"h", "t", "t", "p">>}
Fqdns == UNION {{Join(ls, S_dot) : ls \in [1..n -> LabelSet]} : n \in 1..MaxLabels}
ApexInputs == Fqdns \cup {S_http_prefix \o d : d \in Fqdns}
                    \cup {S_https_prefix \o d : d \in Fqdns}

InitApex ==
    /\ domain \in ApexInputs
    /\ disable_proxy = FALSE
    /\ zones = <<>>
    /\ records = {}
    /\ nextId = FirstFreeId
    /\ pc = "main"
    /\ root_domain = NotParsed
    /\ current_zone = NoZone
    /\ zid = NoZid
    /\ current_ip = NoIp
    /\ found = NoRecord
    /\ tick = 0
    /\ clock = 0
    /\ exit_code = -1
    /\ stdout = {}
    /\ events = <<>>
    /\ foreign = 0

NextApex == ParseRootDomain

SpecApex == InitApex /\ [][NextApex]_vars

-----------------------------------------------------------------------------
(* Reading the log. *)

EvIdx == 1..Len(events)
Writes == {"POST", "PUT"}
ProviderCalls == {"LIST", "POST", "PUT"}

\* the A records a snapshot holds in zone z for the name the process manages
ManagedIn(recs, z) ==
    {r \in recs : r.zone_id = z /\ r.name = domain /\ r.record_type = "A"}

\* the same, in the zone the loop works with
Managed(recs) == ManagedIn(recs, zid)

\* the records the provider held when the process started
InitialRecs == IF events = <<>> THEN records ELSE events[1].recs

\* event i is the listing of a reconcile call that went through: the listing
\* answered and the write that followed it was stored by the provider
IsWrite(j) == events[j].op \in Writes
AppliedWrites == {k \in EvIdx : events[k].op \in Writes /\ events[k].outcome = "applied"}
ListOf(j) == CHOOSE i \in EvIdx : events[i].op = "LIST" /\ events[i].tick = events[j].tick
Succeeded(j) == IsWrite(j) /\ events[j].outcome = "applied"

\* no other writer touched the provider between events i and j
Undisturbed(i, j) == \A k \in i..j : events[k].op # "FOREIGN"

\* writes i and j are the writes of two consecutive reconcile calls that both
\* succeeded, the first one starting from at most one record for the name,
\* with no provider-side change from the first listing to the second write
ConsecutiveSuccesses(i, j) ==
    /\ events[j].tick = events[i].tick + 1
    /\ Succeeded(i) /\ Succeeded(j)
    /\ events[ListOf(i)].n <= 1
    /\ Undisturbed(ListOf(i), j)

-----------------------------------------------------------------------------
(* Claims. *)

\* C1: idempotence of update_zone.  From a provider holding at most one A
\* record for the name, two consecutive successful calls with the same
\* desired content and no provider-side change in between leave the provider
\* with the same records as after the first call, and the second call is a
\* PUT to the id of the record that exists after the first call.
C1_Idempotence ==
    \A i \in AppliedWrites : \A j \in AppliedWrites :
        (ConsecutiveSuccesses(i, j) /\ events[i].content = events[j].content)
        => /\ events[j].op = "PUT"
           /\ events[j].id = events[i].id
           /\ \E r \in Managed(events[i].recs) : r.id = events[j].id
           /\ Managed(events[j].recs) = Managed(events[i].recs)

C1_Witness ==
    \E i \in EvIdx : \E j \in EvIdx :
        /\ ConsecutiveSuccesses(i, j)
        /\ events[i].content = events[j].content
        /\ events[i].op = "POST"

\* C2: whenever the listing returns two or more records, update_zone fails
\* (returns an error) and issues neither a POST nor a PUT in that tick.
C2_AmbiguityFails ==
    \A i \in EvIdx :
        (events[i].op = "LIST" /\ events[i].outcome = "ok" /\ events[i].n >= 2)
        => \A j \in EvIdx :
             events[j].tick = events[i].tick
             => /\ events[j].op \notin Writes
                /\ events[j].op = "RET" => events[j].outcome = "Err"

\* C3: when get_current_ip fails on a tick the process keeps running, no
\* provider call is made in that tick, and what follows is one interval
\* sleep and then the IP resolution of the next tick.
C3_ResolverFailureResilience ==
    \A i \in EvIdx :
        (events[i].op = "RESOLVE" /\ events[i].outcome = "err")
        => /\ pc # "exited"
           /\ \A j \in EvIdx :
                events[j].tick = events[i].tick => events[j].op \notin ProviderCalls
           /\ i < Len(events) => events[i + 1].op = "SLEEP"
           /\ i + 1 < Len(events)
                => /\ events[i + 2].op = "RESOLVE"
                   /\ events[i + 2].tick = events[i].tick + 1

\* C4: when the listing, the POST or the PUT of a tick fails, the failure
\* stays inside the tick: the process keeps running, no further provider call
\* is made in that tick, and the loop goes on to the sleep.
C4_ReconcileFailureResilience ==
    \A i \in EvIdx :
        (events[i].op \in ProviderCalls /\ events[i].outcome \notin {"ok", "applied"})
        => /\ pc # "exited"
           /\ \A j \in (i + 1)..Len(events) :
                events[j].tick = events[i].tick => events[j].op \notin ProviderCalls

\* C5: from a provider with no A record for the name, a successful
\* update_zone creates one; the next successful update_zone, with another IP
\* and no other writer in between, is a PUT to that record: same id, new
\* content, and still a single record.
C5_CreateThenUpdate ==
    \A i \in AppliedWrites : \A j \in AppliedWrites :
        (/\ ConsecutiveSuccesses(i, j)
         /\ events[ListOf(i)].n = 0
         /\ events[i].content # events[j].content)
        => /\ events[i].op = "POST"
           /\ events[j].op = "PUT"
           /\ events[j].id = events[i].id
           /\ {r.id : r \in Managed(events[i].recs)} = {events[i].id}
           /\ {r.id : r \in Managed(events[j].recs)} = {events[i].id}
           /\ \A r \in Managed(events[i].recs) : r.content = events[i].content
           /\ \A r \in Managed(events[j].recs) : r.content = events[j].content

C5_Witness ==
    \E i \in EvIdx : \E j \in EvIdx :
        /\ ConsecutiveSuccesses(i, j)
        /\ events[ListOf(i)].n = 0
        /\ events[i].content # events[j].content
        /\ pc = "sleep"

\* C6: when the body the public-IP service returns is not a dotted-quad IPv4
\* address, get_current_ip yields an error, not a value, and no listing, POST
\* or PUT is issued in that tick.
C6_MalformedIpRejected ==
    \A i \in EvIdx :
        (events[i].op = "RESOLVE" /\ events[i].content \in MalformedBodies)
        => /\ events[i].outcome = "err"
           /\ current_ip \notin MalformedBodies
           /\ \A j \in EvIdx :
                events[j].tick = events[i].tick => events[j].op \notin ProviderCalls

\* the apex the specification derives from the labels of an FQDN
ExpectedApex(d) ==
    LET labels == Split(d, S_dot)
    IN  IF Len(labels) <= 2 THEN d
        ELSE labels[Len(labels) - 1] \o <<S_dot>> \o labels[Len(labels)]

IsFqdn(d) == \A k \in 1..Len(d) : d[k] \notin {":", "/"}

\* names are equal as DNS compares them, without regard to the case of letters
\* (the URL parser hands the host back in lower case)
SameName(a, b) == ToLowercase(a) = ToLowercase(b)

\* C7: for every FQDN of two or fewer labels parse_root_domain returns the
\* FQDN itself, for every FQDN of more than two labels its last two labels
\* joined by a dot.
C7_ApexDerivation ==
    (pc # "main" /\ IsFqdn(domain))
    => /\ root_domain.kind = "Ok"
       /\ SameName(root_domain.val, ExpectedApex(domain))

\* C8: from a provider holding at most one A record for the name and with no
\* other writer, the provider holds at most one A record for the name after
\* any number of ticks, failed ones included; ticks follow one another, and
\* no tick issues more than one POST.
C8_NoDuplicateRecords ==
    \A z \in ZoneIds :
    (Cardinality(ManagedIn(InitialRecs, z)) <= 1 /\ foreign = 0)
    => /\ Cardinality(RecordQuery(z, domain, "A")) <= 1
       /\ \A i \in 1..(Len(events) - 1) : events[i].tick <= events[i + 1].tick
       /\ \A i \in EvIdx : \A j \in (i + 1)..Len(events) :
            (events[i].op = "POST" /\ events[j].op = "POST")
                 => events[i].tick < events[j].tick

C8_Witness ==
    /\ Cardinality(ManagedIn(InitialRecs, zid)) <= 1 /\ foreign = 0
    /\ tick = MaxTicks /\ pc = "sleep"
    /\ \E i \in EvIdx : events[i].op = "POST" /\ events[i].outcome = "applied"
    /\ \E i \in EvIdx : events[i].op \in ProviderCalls
                         /\ events[i].outcome \in {"err", "rejected"}

\* C9: when the zone lookup for the apex yields no zone or more than one,
\* fetch_zones_by_domain fails; it never hands back the first of several
\* zones, and a zone it hands back is named exactly like the apex.
C9_ZoneLocatorAmbiguity ==
    \A i \in EvIdx :
        (events[i].op = "ZONES" /\ events[i].outcome = "ok")
        => /\ events[i].n = 1
           /\ current_zone # NoZone
           /\ current_zone.name = root_domain.val

\* C10: when the zone lookup at startup finds no zone, the process prints a
\* diagnostic and ends with a non-zero exit status; when it finds the zone,
\* the process does not end.
C10_StartupFailureExit ==
    \A i \in EvIdx :
        (events[i].op = "ZONES" /\ events[i].outcome = "ok")
        => /\ (current_zone = NoZone /\ pc = "exited")
                => (exit_code # ExitSuccess /\ "No zone found" \in stdout)
           /\ current_zone # NoZone => pc # "exited"


-----------------------------------------------------------------------------
(* The steps of the process itself, as opposed to those of the services.   *)

ProcessNext ==
    \/ ParseRootDomain
    \/ FetchZonesByDomain
    \/ CreateUpdater
    \/ GetCurrentIp
    \/ GetDnsRecord
    \/ Put
    \/ Post
    \/ Sleep
    \/ JoinUpdater

-----------------------------------------------------------------------------
(* Claims, continued. *)

LoopCalls == {"RESOLVE", "LIST", "POST", "PUT"}
LoopSteps == {"resolve_ip", "list", "put", "post", "sleep"}

\* C11: when the zone lookup at startup fails or returns no zone, the loop is
\* never entered: no IP resolution and no listing, POST or PUT is issued.
C11_NoLoopWithoutZone ==
    \A i \in EvIdx :
        (/\ events[i].op = "ZONES"
         /\ \/ events[i].outcome # "ok"
            \/ events[i].n = 0)
        => /\ tick = 0
           /\ pc \notin LoopSteps
           /\ \A j \in EvIdx : events[j].op \notin LoopCalls

C11_Witness ==
    /\ pc = "exited"
    /\ \E i \in EvIdx : events[i].op = "ZONES" /\ events[i].outcome = "ok" /\ events[i].n = 0

\* the id of the zone the provider now gives for the apex
CurrentZoneId == FirstZone(ZoneQuery(root_domain.val)).id

\* C12: every tick derives the zone id from the provider again, so a listing,
\* POST or PUT made after the provider's last change of the zone's id is
\* addressed to the id the provider now gives.
C12_ZoneReResolved ==
    \A i \in EvIdx :
        (/\ events[i].op \in ProviderCalls
         /\ \A k \in (i + 1)..Len(events) : events[k].op # "REZONE")
        => events[i].zone = CurrentZoneId

\* C13: within a tick the IP resolution comes before every provider call and
\* the listing before the POST or PUT, of which there is at most one; the IP
\* resolution of tick N+1 comes after update_zone of tick N has returned and
\* after exactly one interval sleep.  Stated of the calls of the latest tick,
\* every tick being the latest one while its calls are made.
C13_TickOrdering ==
    /\ \A i \in EvIdx :
         events[i].tick = tick
         => /\ events[i].op \in ProviderCalls
               => \E k \in 1..(i - 1) : /\ events[k].op = "RESOLVE"
                                        /\ events[k].outcome = "ok"
                                        /\ events[k].tick = tick
            /\ events[i].op \in Writes
               => /\ \E k \in 1..(i - 1) : /\ events[k].op = "LIST"
                                           /\ events[k].outcome = "ok"
                                           /\ events[k].tick = tick
                  /\ \A j \in (i + 1)..Len(events) : events[j].op \notin Writes
            /\ (events[i].op = "RESOLVE" /\ tick > 1)
               => \E r \in 1..(i - 1) : \E s \in (r + 1)..(i - 1) :
                    /\ events[r].op = "RET" /\ events[r].tick = tick - 1
                    /\ events[s].op = "SLEEP"
                    /\ \A t \in r..i : events[t].op = "SLEEP" => t = s
    /\ tick >= 1 => clock = IntervalSecs * (tick - 1)

C13_Witness ==
    /\ tick = 2 /\ pc = "sleep"
    /\ \E i \in EvIdx : events[i].op \in Writes /\ events[i].tick = 1
    /\ \E i \in EvIdx : events[i].op \in Writes /\ events[i].tick = 2

\* C14: whenever the provider rejects the POST or PUT, update_zone returns an
\* error to its caller.
C14_RejectedWriteIsAnError ==
    \A i \in EvIdx :
        (events[i].op \in Writes /\ events[i].outcome = "rejected")
        => /\ i < Len(events)
           /\ events[i + 1].op = "RET"
           /\ events[i + 1].outcome = "Err"

ResolveOf(j) == CHOOSE i \in EvIdx : events[i].op = "RESOLVE" /\ events[i].tick = events[j].tick

\* update_zone went through at event i, from at most one record for the name
\* and with no other writer between its listing and its write
CleanSuccess(i) ==
    /\ Succeeded(i)
    /\ events[ListOf(i)].n <= 1
    /\ Undisturbed(ListOf(i), i)

\* C15: after a tick whose update_zone went through from at most one matching
\* record, the provider's A record for the name has the IP resolved in that
\* tick as content, proxied = ~disable_proxy, type A and ttl 1.
C15_ReconcilePostcondition ==
    \A i \in AppliedWrites :
        CleanSuccess(i)
        => \E r \in Managed(events[i].recs) :
             /\ Managed(events[i].recs) = {r}
             /\ r.id = events[i].id
             /\ r.content = events[ResolveOf(i)].content
             /\ r.proxied = ~disable_proxy
             /\ r.record_type = "A"
             /\ r.ttl = AutoTtl

C15_Witness ==
    \E i \in AppliedWrites :
        /\ CleanSuccess(i)
        /\ events[i].op = "PUT"
        /\ disable_proxy
        /\ events[ResolveOf(i)].content \in ValidIPv4

\* C16: a network call that gets no response does not hold the loop for
\* ever: a timeout bounds the call, so the process waiting in it has a step
\* to take that ends the call.
C16_NoIndefiniteStall == pc = "hung" => ENABLED ProcessNext

\* C17: whenever the listing returns exactly one record, update_zone issues
\* one PUT to that record's id and no POST, also when the record already has
\* the desired content, proxied and ttl.
C17_UnconditionalUpdate ==
    \A i \in EvIdx :
        (events[i].op = "LIST" /\ events[i].outcome = "ok" /\ events[i].n = 1)
        => /\ \A j \in EvIdx :
                events[j].tick = events[i].tick
                => /\ events[j].op # "POST"
                   /\ events[j].op = "PUT"
                        => /\ j > i /\ events[j].id = events[i].id
                           /\ \A k \in (j + 1)..Len(events) :
                                events[k].op = "PUT" => events[k].tick > events[j].tick
           /\ (tick > events[i].tick \/ pc # "put")
                => \E j \in (i + 1)..Len(events) :
                     events[j].op = "PUT" /\ events[j].tick = events[i].tick

C17_Witness ==
    \E i \in AppliedWrites : \E j \in AppliedWrites :
        /\ i < j
        /\ events[j].op = "PUT"
        /\ events[ListOf(j)].n = 1
        /\ Undisturbed(i, j)
        /\ Managed(events[i].recs) = Managed(events[j].recs)

\* the step in which the listing of update_zone fails
ListingFails ==
    /\ pc = "list"
    /\ Len(events') = Len(events) + 2
    /\ events'[Len(events) + 1].op = "LIST"
    /\ events'[Len(events) + 1].outcome = "err"

\* the last listing of the log failed
LastListingFailed ==
    \E i \in EvIdx : /\ events[i].op = "LIST" /\ events[i].outcome = "err"
                     /\ events[i].tick = tick

\* C18: when the listing inside update_zone fails, update_zone issues no POST
\* and no PUT, leaves the provider's records as they are and returns Ok; the
\* loop goes to its sleep and from there to the next tick.
C18_ListingFailureNoOp ==
    [][/\ ListingFails
          => /\ records' = records /\ nextId' = nextId
             /\ pc' = "sleep"
             /\ events'[Len(events) + 2].op = "RET"
             /\ events'[Len(events) + 2].outcome = "Ok"
             /\ \A j \in 1..Len(events') :
                  events'[j].tick = tick => events'[j].op \notin Writes
       /\ (pc = "sleep" /\ LastListingFailed)
          => /\ pc' \in {"sleep", "resolve_ip"}
             /\ pc' = "resolve_ip" => tick' = tick + 1
             /\ \A j \in 1..Len(events') : events'[j].op \in Writes => events'[j].tick < tick
      ]_vars

C18_Witness ==
    \E i \in EvIdx : /\ events[i].op = "LIST" /\ events[i].outcome = "err"
                     /\ events[i].tick + 1 = tick
                     /\ pc = "list"

\* C19: the process lives as long as the updater task: once the task has
\* ended, by returning or by a panic, the next step is main's return, with no
\* call in between, and nothing happens after main has returned; while the
\* loop runs the process has no exit status.
C19_LifetimeTiedToLoop ==
    [][/\ pc # "exited"
       /\ pc \in {"task_returned", "task_panicked"}
          => /\ pc' = "exited"
             /\ events' = events
             /\ records' = records
       /\ pc' \in LoopSteps => exit_code' = -1
      ]_vars

C19_Witness ==
    /\ pc = "exited"
    /\ tick = 2
    /\ \E i \in EvIdx : events[i].op \in LoopCalls /\ events[i].outcome \in {"err", "lost"}

\* C20: for every host name d on which parse_root_domain returns, the result
\* has at most two labels and parse_root_domain maps it to itself.
C20_ApexIdempotent ==
    (pc # "main" /\ IsFqdn(domain) /\ root_domain.kind = "Ok")
    => /\ Len(Split(root_domain.val, S_dot)) <= 2
       /\ parse_root_domain(root_domain.val) = root_domain

=============================================================================
